---- MODULE Spec2Model ----
(***************************************************************************)
(* A model of tools/build.py: the driver that turns a build request        *)
(* (platform, architecture, backend) into cmake configure/build runs and   *)
(* copies the runtime libraries into bin/<platform>/<arch>.                *)
(*                                                                         *)
(* Four specifications share the variables:                                *)
(*   Spec      one invocation of build.py (linux, windows or android)      *)
(*   SpecPatch calls of patch_/restore_llama_zendnn_install_target         *)
(*   SpecCopy  one call of copy_runtime_libraries on an arbitrary tree     *)
(*   SpecNdk   one call of detect_android_ndk on an arbitrary host         *)
(***************************************************************************)
EXTENDS Integers, Sequences, FiniteSets, TLC

VARIABLES
    args,        \* argparse.Namespace of the invocation
    env,         \* what the host answers: platform.system(), platform.machine(), submodule
    pc,          \* position of the control flow
    err,         \* message of fail() / SystemExit, "" while none
    arch,        \* build_linux / build_windows: the local `arch`
    cache_vars,  \* the local `cache_vars` of the running build function
    log,         \* what happened in order: run() commands with exit status, resets, copies
    build_dirs,  \* preset -> NoDir or the set of entries under the preset's build dir
    out_dirs,    \* BIN_DIR / <platform>/<arch> -> NoDir or the set of file names in it
    cmake_file,  \* bytes of ggml-zendnn/CMakeLists.txt, or NoFile
    zendnn_patch_applied, \* build_linux's local flag
    extra_args,  \* the local `extra_args`: the -D<key>=<value> arguments, key -> value
    abis,        \* build_android: the ABIs still to build (head is the current one)
    rets,        \* SpecPatch: what the calls made so far returned
    libs,        \* copy_runtime_libraries: the list collect_runtime_libraries returned
    init_fs      \* the filesystem as it was when the invocation started

vars == <<args, env, pc, err, arch, cache_vars, log, build_dirs, out_dirs,
          cmake_file, zendnn_patch_applied, extra_args, abis, rets, libs, init_fs>>

(***************************************************************************)
(* Bounds of the model.                                                    *)
(***************************************************************************)
MaxLen == 4      \* longest CMakeLists.txt content, in tokens
MaxCalls == 3    \* most patch calls in a row
MaxFiles == 3    \* most entries in a build tree
NumDirs == 2     \* sub-directories of a build tree
MaxJobs == 1     \* largest --jobs value
MaxInstalled == 2 \* most entries under the ndk directories of a host, all roots together

None == "None"

\* a path that does not exist, as a file and as a directory
NoFile == [exists |-> FALSE, bytes |-> <<>>]

NoDir == [exists |-> FALSE, entries |-> {}]

File(bytes) == [exists |-> TRUE, bytes |-> bytes]

Dir(entries) == [exists |-> TRUE, entries |-> entries]

(***************************************************************************)
(* Strings are sequences of tokens; the operators are Python's str         *)
(* methods.                                                                *)
(***************************************************************************)
StartsWith(s, p) == Len(p) <= Len(s) /\ SubSeq(s, 1, Len(p)) = p

EndsWith(s, p) == Len(p) <= Len(s) /\ SubSeq(s, Len(s) - Len(p) + 1, Len(s)) = p

\* `p in s`
Contains(s, p) == \E i \in 1..(Len(s) - Len(p) + 1) : SubSeq(s, i, i + Len(p) - 1) = p

RECURSIVE Replace(_, _, _)
\* s.replace(o, n): leftmost, non-overlapping occurrences
Replace(s, o, n) ==
    IF Len(s) < Len(o) THEN s
    ELSE IF SubSeq(s, 1, Len(o)) = o
         THEN n \o Replace(SubSeq(s, Len(o) + 1, Len(s)), o, n)
         ELSE <<Head(s)>> \o Replace(Tail(s), o, n)

(***************************************************************************)
(* PatchManager: the ZenDNN install-target patch.                          *)
(* Tokens of the file: "P" is the text the two install commands share      *)
(* ("INSTALL_COMMAND ${CMAKE_COMMAND} --build ${ZENDNN_BUILD_DIR}          *)
(* --target "), "i" is "install", "z" is "zendnnl", "x" is any other text, *)
(* "CR" and "LF" are the bytes 13 and 10.                                  *)
(***************************************************************************)
Tokens == {"P", "i", "z", "x", "CR", "LF"}

old == <<"P", "i">>

new == <<"P", "z">>

RECURSIVE ReadText(_)
\* Path.read_text: text mode, universal newlines ("\r\n" and "\r" read as "\n")
ReadText(bytes) ==
    IF bytes = <<>> THEN <<>>
    ELSE IF Head(bytes) = "CR"
         THEN IF Len(bytes) >= 2 /\ bytes[2] = "LF"
              THEN <<"LF">> \o ReadText(SubSeq(bytes, 3, Len(bytes)))
              ELSE <<"LF">> \o ReadText(Tail(bytes))
         ELSE <<Head(bytes)>> \o ReadText(Tail(bytes))

\* os.linesep of the host
LineSep(system) == IF system = "windows" THEN <<"CR", "LF">> ELSE <<"LF">>

\* Path.write_text: text mode, "\n" written as os.linesep
WriteText(text, system) == Replace(text, <<"LF">>, LineSep(system))

\* patch_llama_zendnn_install_target(): [ret, file, err]; err # "" is fail()
patch_llama_zendnn_install_target(file, system) ==
    IF ~file.exists
    THEN [ret |-> FALSE, file |-> file, err |-> "missing_zendnn_cmake"]
    ELSE LET text == ReadText(file.bytes) IN
         IF Contains(text, new)
         THEN [ret |-> FALSE, file |-> file, err |-> ""]
         ELSE IF ~Contains(text, old)
              THEN [ret |-> FALSE, file |-> file, err |-> "zendnn_patch_not_applicable"]
              ELSE [ret |-> TRUE,
                    file |-> File(WriteText(Replace(text, old, new), system)),
                    err |-> ""]

\* restore_llama_zendnn_install_target(): the file afterwards
restore_llama_zendnn_install_target(file, system) ==
    IF ~file.exists THEN file
    ELSE LET text == ReadText(file.bytes) IN
         IF ~Contains(text, new) THEN file
         ELSE File(WriteText(Replace(text, new, old), system))

RECURSIVE SeqsUpTo(_, _)
SeqsUpTo(S, n) ==
    IF n = 0 THEN {<<>>}
    ELSE LET shorter == SeqsUpTo(S, n - 1) IN
         shorter \cup {Append(s, t) : s \in {q \in shorter : Len(q) = n - 1}, t \in S}

(***************************************************************************)
(* ArtifactCollector.  A file name is the sequence of its characters; an   *)
(* entry of a build tree is [dir, name, kind]: the file or directory       *)
(* build_dir/<dir>/<name>.                                                 *)
(***************************************************************************)
Lib == <<"l", "i", "b">>

Ggml == <<"g", "g", "m", "l">>

Llama == <<"l", "l", "a", "m", "a">>

Mtmd == <<"m", "t", "m", "d">>

Dart == <<"d", "a", "r", "t">>

DotSo == <<".", "s", "o">>

DotDll == <<".", "d", "l", "l">>

DotDylib == <<".", "d", "y", "l", "i", "b">>

LibGgmlSo == Lib \o Ggml \o DotSo

LibGgmlSo0 == Lib \o Ggml \o DotSo \o <<".", "0">>

LibLlamaDylib == Lib \o Llama \o DotDylib

GgmlDll == Ggml \o DotDll

LibFooSo == Lib \o <<"f", "o", "o">> \o DotSo

MtmdSoUpper == <<"M", "t", "m", "d", ".", "S", "O">>

LlamaSo == Llama \o DotSo

StaleName == <<"o", "l", "d">> \o DotSo

FileNames == {LibGgmlSo, LibGgmlSo0, LibLlamaDylib, GgmlDll, LibFooSo, MtmdSoUpper}

Dirs == 1..NumDirs

\* every entry a build tree of the model can hold; LlamaSo only names directories
TreeUniverse ==
    [dir : Dirs, name : FileNames, kind : {"file"}]
        \cup [dir : Dirs, name : {LlamaSo}, kind : {"dir"}]

\* str.lower(), one character
LowerChar(c) ==
    CASE c = "M" -> "m"
      [] c = "S" -> "s"
      [] c = "O" -> "o"
      [] OTHER -> c

\* str.lower()
Lower(s) == [i \in 1..Len(s) |-> LowerChar(s[i])]

prefixes ==
    {Llama \o Dart, Llama, Ggml, Mtmd,
     Lib \o Llama \o Dart, Lib \o Llama, Lib \o Ggml, Lib \o Mtmd}

\* is_runtime_library(path)
is_runtime_library(p) ==
    LET name == Lower(p.name) IN
    IF p.kind # "file" THEN FALSE
    ELSE IF ~(EndsWith(name, DotDll) \/ EndsWith(name, DotDylib) \/ EndsWith(name, DotSo))
         THEN FALSE
         ELSE \E q \in prefixes : StartsWith(name, q)

\* the code point of a character, as far as the names of the model need it
Code(c) ==
    CASE c = "." -> 46 [] c = "0" -> 48 [] c = "1" -> 49 [] c = "2" -> 50
      [] c = "5" -> 53 [] c = "6" -> 54 [] c = "9" -> 57 [] c = "M" -> 77 [] c = "O" -> 79
      [] c = "S" -> 83 [] c = "a" -> 97 [] c = "b" -> 98 [] c = "d" -> 100
      [] c = "f" -> 102 [] c = "g" -> 103 [] c = "i" -> 105 [] c = "l" -> 108
      [] c = "m" -> 109 [] c = "o" -> 111 [] c = "r" -> 114 [] c = "s" -> 115
      [] c = "t" -> 116 [] c = "y" -> 121

RECURSIVE StrLess(_, _)
\* a < b for two str
StrLess(a, b) ==
    IF b = <<>> THEN FALSE
    ELSE IF a = <<>> THEN TRUE
    ELSE IF Head(a) # Head(b) THEN Code(Head(a)) < Code(Head(b))
    ELSE StrLess(Tail(a), Tail(b))

\* p < q for two Path under the same build_dir
PathLess(p, q) == p.dir < q.dir \/ (p.dir = q.dir /\ StrLess(p.name, q.name))

RECURSIVE SortedNames(_)
\* sorted(S) for a set of str
SortedNames(S) ==
    IF S = {} THEN <<>>
    ELSE LET m == CHOOSE x \in S : \A y \in S \ {x} : StrLess(x, y) IN
         <<m>> \o SortedNames(S \ {m})

\* collect_runtime_libraries(build_dir): [err, libs]; `tree` is NoDir when build_dir
\* does not exist (rglob then yields nothing)
collect_runtime_libraries(tree) ==
    LET entries == IF tree.exists THEN tree.entries ELSE {}
        runtime == {p \in entries : is_runtime_library(p)}
        \* selected[p.name] = p over the sorted paths: the last path of a name stays
        selected == {p \in runtime :
                        \A q \in runtime : q.name = p.name => ~PathLess(p, q)}
        keys == SortedNames({p.name : p \in selected})
    IN  IF selected = {}
        THEN [err |-> "no_runtime_libraries", libs |-> <<>>]
        ELSE [err |-> "",
              libs |-> [i \in 1..Len(keys) |->
                           CHOOSE p \in selected : p.name = keys[i]]]

\* reset_dir without the rmtree: the directory is only made
MutResetDirKeepsFiles(dir) == Dir(dir.entries)

\* reset_dir(path): the directory afterwards (rmtree when it exists, then mkdir)
reset_dir(dir) == Dir({})

\* copy_output(src, dst) into the directory `dir`: mkdir of the parent, then copy2
copy_output(src, dir) == Dir(dir.entries \cup {src.name})

RECURSIVE CopyAll(_, _, _)
\* the loop of copy_runtime_libraries over libs[1..n]
CopyAll(srcs, n, dir) ==
    IF n = 0 THEN dir ELSE copy_output(srcs[n], CopyAll(srcs, n - 1, dir))

\* copy_runtime_libraries that resets the output directory before it collects
MutCopyResetsBeforeCollect(tree, out) ==
    LET c == collect_runtime_libraries(tree) IN
    IF c.err # ""
    THEN {[err |-> c.err, libs |-> c.libs, out |-> reset_dir(out)]}
    ELSE {[err |-> "", libs |-> c.libs,
           out |-> CopyAll(c.libs, Len(c.libs), reset_dir(out))]}
         \cup {[err |-> "oserror", libs |-> c.libs,
                out |-> CopyAll(c.libs, k, reset_dir(out))] : k \in 0..(Len(c.libs) - 1)}

\* copy_runtime_libraries(build_dir, out_dir): every way the call can end, as
\* [err, libs, out]: no library found, an OSError at the copy of file k + 1, or success
copy_runtime_libraries(tree, out) ==
    LET c == collect_runtime_libraries(tree) IN
    IF c.err # ""
    THEN {[err |-> c.err, libs |-> c.libs, out |-> out]}
    ELSE {[err |-> "", libs |-> c.libs,
           out |-> CopyAll(c.libs, Len(c.libs), reset_dir(out))]}
         \cup {[err |-> "oserror", libs |-> c.libs,
                out |-> CopyAll(c.libs, k, reset_dir(out))] : k \in 0..(Len(c.libs) - 1)}

RECURSIVE SubsetsUpTo(_, _)
\* the subsets of S of at most n elements
SubsetsUpTo(S, n) ==
    IF n = 0 THEN {{}}
    ELSE LET smaller == SubsetsUpTo(S, n - 1) IN
         smaller \cup {t \cup {e} : t \in smaller, e \in S}

\* the build trees of at most n entries
Trees(n) == {Dir(t) : t \in SubsetsUpTo(TreeUniverse, n)}

(***************************************************************************)
(* ConfigResolver: the cache variables of a backend.  A dict is a function *)
(* from its keys.                                                          *)
(***************************************************************************)
EmptyDict == [k \in {} |-> "OFF"]

\* d[k] = v
Put(d, k, v) == [x \in DOMAIN d \cup {k} |-> IF x = k THEN v ELSE d[x]]

\* d.update(e) / list.extend of -D arguments
Extend(d, e) == [x \in DOMAIN d \cup DOMAIN e |-> IF x \in DOMAIN e THEN e[x] ELSE d[x]]

LINUX_BACKENDS == {"full", "vulkan", "cuda", "blas"}

WINDOWS_BACKENDS == {"full", "vulkan", "cuda", "blas"}

ANDROID_BACKENDS == {"full", "vulkan", "opencl"}

ANDROID_ABI_ALIASES ==
    [a \in {"arm64-v8a", "arm64", "x86_64", "x64"} |->
        IF a \in {"arm64-v8a", "arm64"} THEN "arm64-v8a" ELSE "x86_64"]

ANDROID_OUT_ARCH == [a \in {"arm64-v8a", "x86_64"} |-> IF a = "arm64-v8a" THEN "arm64" ELSE "x64"]

\* linux_backend_cache_vars without its first two lines: cuda is accepted on any arch
MutLinuxCacheVarsAcceptsCuda(a, backend) ==
    LET v0 == [GGML_VULKAN |-> "OFF", GGML_OPENCL |-> "OFF", GGML_CUDA |-> "OFF",
               GGML_BLAS |-> "OFF", GGML_ZENDNN |-> "OFF",
               GGML_CPU_KLEIDIAI |-> IF a = "arm64" THEN "ON" ELSE "OFF"]
        v1 == IF backend \in {"full", "vulkan"} THEN Put(v0, "GGML_VULKAN", "ON") ELSE v0
        v2 == IF backend \in {"full", "cuda"} THEN Put(v1, "GGML_CUDA", "ON") ELSE v1
        v3 == IF backend \in {"full", "blas"}
              THEN Put(Put(v2, "GGML_BLAS", "ON"), "GGML_BLAS_VENDOR", "OpenBLAS")
              ELSE v2
    IN  [err |-> "", vars |-> v3]

\* linux_backend_cache_vars that turns GGML_ZENDNN on for backend full
MutLinuxCacheVarsZendnnOn(a, backend) ==
    IF backend = "cuda" /\ a # "x64"
    THEN [err |-> "cuda_only_x64", vars |-> EmptyDict]
    ELSE LET v0 == [GGML_VULKAN |-> "OFF", GGML_OPENCL |-> "OFF", GGML_CUDA |-> "OFF",
                    GGML_BLAS |-> "OFF", GGML_ZENDNN |-> "OFF",
                    GGML_CPU_KLEIDIAI |-> IF a = "arm64" THEN "ON" ELSE "OFF"]
             v1 == IF backend \in {"full", "vulkan"} THEN Put(v0, "GGML_VULKAN", "ON") ELSE v0
             v2 == IF backend \in {"full", "cuda"} THEN Put(v1, "GGML_CUDA", "ON") ELSE v1
             v3 == IF backend \in {"full", "blas"}
                   THEN Put(Put(v2, "GGML_BLAS", "ON"), "GGML_BLAS_VENDOR", "OpenBLAS")
                   ELSE v2
             v4 == IF backend = "full" THEN Put(v3, "GGML_ZENDNN", "ON") ELSE v3
         IN  [err |-> "", vars |-> v4]

\* linux_backend_cache_vars(arch, backend): [err, vars]; err # "" is fail()
linux_backend_cache_vars(a, backend) ==
    IF backend = "cuda" /\ a # "x64"
    THEN [err |-> "cuda_only_x64", vars |-> EmptyDict]
    ELSE LET v0 == [GGML_VULKAN |-> "OFF", GGML_OPENCL |-> "OFF", GGML_CUDA |-> "OFF",
                    GGML_BLAS |-> "OFF", GGML_ZENDNN |-> "OFF",
                    GGML_CPU_KLEIDIAI |-> IF a = "arm64" THEN "ON" ELSE "OFF"]
             v1 == IF backend \in {"full", "vulkan"} THEN Put(v0, "GGML_VULKAN", "ON") ELSE v0
             v2 == IF backend \in {"full", "cuda"} THEN Put(v1, "GGML_CUDA", "ON") ELSE v1
             v3 == IF backend \in {"full", "blas"}
                   THEN Put(Put(v2, "GGML_BLAS", "ON"), "GGML_BLAS_VENDOR", "OpenBLAS")
                   ELSE v2
         IN  [err |-> "", vars |-> v3]

\* android_backend_cache_vars(abi, backend)
android_backend_cache_vars(abi, backend) ==
    LET v0 == [GGML_VULKAN |-> "OFF", GGML_OPENCL |-> "OFF",
               GGML_CPU_KLEIDIAI |-> IF abi = "arm64-v8a" THEN "ON" ELSE "OFF"]
        v1 == IF backend \in {"full", "vulkan"} THEN Put(v0, "GGML_VULKAN", "ON") ELSE v0
        v2 == IF backend \in {"full", "opencl"} THEN Put(v1, "GGML_OPENCL", "ON") ELSE v1
    IN  [err |-> "", vars |-> v2]

\* windows_backend_cache_vars(arch, backend): [err, vars]; err # "" is fail()
windows_backend_cache_vars(a, backend) ==
    IF backend = "cuda" /\ a # "x64"
    THEN [err |-> "cuda_only_x64", vars |-> EmptyDict]
    ELSE LET v0 == [GGML_VULKAN |-> "OFF", GGML_OPENCL |-> "OFF", GGML_CUDA |-> "OFF",
                    GGML_BLAS |-> "OFF",
                    GGML_CPU_KLEIDIAI |-> IF a = "arm64" THEN "ON" ELSE "OFF"]
             v1 == IF backend \in {"full", "vulkan"} THEN Put(v0, "GGML_VULKAN", "ON") ELSE v0
             v2 == IF backend \in {"full", "cuda"} THEN Put(v1, "GGML_CUDA", "ON") ELSE v1
             v3 == IF backend \in {"full", "blas"}
                   THEN Put(Put(v2, "GGML_BLAS", "ON"), "GGML_BLAS_VENDOR", "OpenBLAS")
                   ELSE v2
         IN  [err |-> "", vars |-> v3]

\* cmake_cache_args(cache_vars): one -D<key>=<value> per key
cmake_cache_args(cv) == cv

\* detect_linux_arch() on a host whose platform.machine() is `machine`
detect_linux_arch(machine) ==
    IF machine \in {"x86_64", "amd64", "x64"} THEN "x64"
    ELSE IF machine \in {"aarch64", "arm64"} THEN "arm64"
    ELSE "unsupported"

(***************************************************************************)
(* Presets, build directories and output directories.  The preset          *)
(* "<platform>-<arch>-full" is <<platform, arch>>, its build directory is  *)
(* keyed by the preset, and BIN_DIR/<platform>/<arch> is <<platform, arch>>*)
(***************************************************************************)
Presets ==
    ({"linux", "windows"} \X {"x64", "arm64"}) \cup ({"android"} \X {"arm64-v8a", "x86_64"})

OutDirs == {"linux", "windows", "android"} \X {"x64", "arm64"}

\* resolve_build_dir_for_preset(preset): one build directory per preset
resolve_build_dir_for_preset(preset) == preset

\* clean_build_dir(preset, clean): the build directories afterwards
clean_build_dir(dirs, preset, clean) ==
    LET build_dir == resolve_build_dir_for_preset(preset) IN
    IF clean /\ dirs[build_dir].exists
    THEN [dirs EXCEPT ![build_dir] = NoDir]
    ELSE dirs

(***************************************************************************)
(* BuildDriver: run() and the two commands of configure_and_build.         *)
(* A command is [step, preset, extra, parallel]; parallel = 0 is a command *)
(* without --parallel.                                                     *)
(***************************************************************************)
configure_cmd(preset, extra) ==
    [step |-> "configure", preset |-> preset, extra |-> extra, parallel |-> 0]

build_cmd(preset, jobs) ==
    [step |-> "build", preset |-> preset, extra |-> EmptyDict,
     parallel |-> IF jobs.given /\ jobs.n # 0 /\ jobs.n > 0 THEN jobs.n ELSE 0]

\* run(cmd): the command is printed and executed; rc is its exit status
RunEvent(cmd, rc) ==
    [kind |-> "run", step |-> cmd.step, preset |-> cmd.preset, extra |-> cmd.extra,
     parallel |-> cmd.parallel, rc |-> rc, out |-> <<>>]

\* "Copied n runtime libraries to out_dir", or the failed copy
CopyEvent(preset, out, rc) ==
    [kind |-> "copy", step |-> "copy", preset |-> preset, extra |-> EmptyDict,
     parallel |-> 0, rc |-> rc, out |-> out]

(***************************************************************************)
(* The platform entry points, up to the call of configure_and_build.       *)
(* `which` holds what the host answers to the lookups the code makes       *)
(* (shutil.which, is_file, the discovery chains).  Each returns            *)
(* [err, arch, cache_vars, extra_args, build_dirs, cmake_file, applied,    *)
(* log]: the locals and the filesystem when it stops; err # "" is fail().  *)
(***************************************************************************)
Stop(m, a, cv, extra, dirs, file, applied, events) ==
    [err |-> m, arch |-> a, cache_vars |-> cv, extra_args |-> extra, build_dirs |-> dirs,
     cmake_file |-> file, applied |-> applied, log |-> events]

CrossArgs ==
    [CMAKE_C_COMPILER |-> "aarch64-linux-gnu-gcc", CMAKE_CXX_COMPILER |-> "aarch64-linux-gnu-g++",
     CMAKE_SYSTEM_NAME |-> "Linux", CMAKE_SYSTEM_PROCESSOR |-> "aarch64"]

LinuxWhich == [cc : BOOLEAN, cxx : BOOLEAN, nvcc : BOOLEAN]

\* build_linux, lines 483-517
build_linux(a, e, dirs, file, which) ==
    IF e.system # "linux" THEN Stop("host_platform", "", EmptyDict, EmptyDict, dirs, file, FALSE, <<>>)
    ELSE IF ~e.submodule THEN Stop("missing_submodule", "", EmptyDict, EmptyDict, dirs, file, FALSE, <<>>)
    ELSE
    LET ar == IF a.arch # None THEN a.arch ELSE detect_linux_arch(e.machine) IN
    IF ar = "unsupported" THEN Stop("unsupported_host_arch", "", EmptyDict, EmptyDict, dirs, file, FALSE, <<>>)
    ELSE IF ~e.presets THEN Stop("presets_unreadable", ar, EmptyDict, EmptyDict, dirs, file, FALSE, <<>>)
    ELSE
    LET preset == <<"linux", ar>>
        d1 == clean_build_dir(dirs, preset, a.clean)
        cv == linux_backend_cache_vars(ar, a.backend)
        host_arch == detect_linux_arch(e.machine)
        cross == ar = "arm64" /\ host_arch # "arm64"
        base == cmake_cache_args(cv.vars)
        extra == IF cross THEN Extend(base, CrossArgs) ELSE base
        do_patch == ar = "x64" /\ cv.vars["GGML_ZENDNN"] = "ON"
        pr == patch_llama_zendnn_install_target(file, e.system)
    IN  IF cv.err # "" THEN Stop(cv.err, ar, EmptyDict, EmptyDict, d1, file, FALSE, <<>>)
        ELSE IF host_arch = "unsupported"
        THEN Stop("unsupported_host_arch", ar, cv.vars, base, d1, file, FALSE, <<>>)
        ELSE IF cross /\ ~(which.cc /\ which.cxx)
        THEN Stop("no_cross_compiler", ar, cv.vars, base, d1, file, FALSE, <<>>)
        ELSE IF cv.vars["GGML_CUDA"] = "ON" /\ ~which.nvcc
        THEN Stop("nvcc_missing", ar, cv.vars, extra, d1, file, FALSE, <<>>)
        ELSE IF do_patch /\ pr.err # ""
        THEN Stop(pr.err, ar, cv.vars, extra, d1, file, FALSE, <<>>)
        ELSE Stop("", ar, cv.vars, extra, d1,
                  IF do_patch THEN pr.file ELSE file, do_patch /\ pr.ret, <<>>)

WINDOWS_VCPKG_TRIPLETS == [a \in {"x64", "arm64"} |-> IF a = "x64" THEN "x64-windows" ELSE "arm64-windows"]

WindowsWhich ==
    [nvcc : BOOLEAN, vcpkg : BOOLEAN, sdk : BOOLEAN, vulkan_lib : BOOLEAN, glslc : BOOLEAN]

\* build_windows, lines 621-664
build_windows(a, e, dirs, file, which) ==
    IF e.system # "windows" THEN Stop("host_platform", "", EmptyDict, EmptyDict, dirs, file, FALSE, <<>>)
    ELSE IF ~e.submodule THEN Stop("missing_submodule", "", EmptyDict, EmptyDict, dirs, file, FALSE, <<>>)
    ELSE
    LET ar == a.arch
        cv == windows_backend_cache_vars(ar, a.backend)
        preset == <<"windows", ar>>
        d1 == clean_build_dir(dirs, preset, a.clean)
        x0 == cmake_cache_args(cv.vars)
        \* vcpkg_root and its toolchain file both found
        x1 == IF which.vcpkg /\ cv.vars["GGML_BLAS"] = "ON"
              THEN Extend(x0, [CMAKE_TOOLCHAIN_FILE |-> "vcpkg.cmake",
                               VCPKG_TARGET_TRIPLET |-> WINDOWS_VCPKG_TRIPLETS[ar]])
              ELSE x0
        sdk == cv.vars["GGML_VULKAN"] = "ON" /\ which.sdk
        x2 == IF sdk /\ ar = "x64"
              THEN Extend(x1, [Vulkan_ROOT |-> "sdk", Vulkan_INCLUDE_DIR |-> "sdk/Include"])
              ELSE x1
        x3 == IF sdk /\ ar = "x64" /\ which.vulkan_lib
              THEN Put(x2, "Vulkan_LIBRARY", "vulkan-1.lib") ELSE x2
        x4 == IF sdk /\ which.glslc THEN Put(x3, "Vulkan_GLSLC_EXECUTABLE", "glslc.exe") ELSE x3
    IN  IF cv.err # "" THEN Stop(cv.err, ar, EmptyDict, EmptyDict, dirs, file, FALSE, <<>>)
        ELSE IF cv.vars["GGML_CUDA"] = "ON" /\ ~which.nvcc
        THEN Stop("nvcc_missing", ar, cv.vars, EmptyDict, dirs, file, FALSE, <<>>)
        ELSE IF ~e.presets
        THEN Stop("presets_unreadable", ar, cv.vars, EmptyDict, dirs, file, FALSE, <<>>)
        ELSE Stop("", ar, cv.vars, x4, d1, file, FALSE, <<>>)

\* how resolve_android_opencl can end: the library found without a build, the env
\* override naming no file, the loader built from source (or one of its two commands
\* failing, or no libOpenCL.so in what it built), nothing found and no loader
\* sources, the library found but no CL/cl.h
OpenclOutcomes ==
    {"found", "env_not_a_file", "loader_built", "loader_configure_failed",
     "loader_build_failed", "loader_no_library", "unresolved", "no_headers"}

AndroidWhich ==
    [vulkan_headers : BOOLEAN, glslc : BOOLEAN, vulkan_lib : BOOLEAN, opencl : OpenclOutcomes]

\* the run() calls of build_android_opencl_loader, lines 349 and 354
LoaderEvents(preset, jobs, outcome) ==
    LET c == [step |-> "loader_configure", preset |-> preset, extra |-> EmptyDict, parallel |-> 0]
        b == [step |-> "loader_build", preset |-> preset, extra |-> EmptyDict,
              parallel |-> IF jobs.given /\ jobs.n # 0 /\ jobs.n > 0 THEN jobs.n ELSE 0]
    IN  CASE outcome = "loader_configure_failed" -> <<RunEvent(c, 1)>>
          [] outcome = "loader_build_failed" -> <<RunEvent(c, 0), RunEvent(b, 1)>>
          [] outcome \in {"loader_built", "loader_no_library"} ->
                <<RunEvent(c, 0), RunEvent(b, 0)>>
          [] OTHER -> <<>>

\* build_android_abi, lines 541-589
build_android_abi(abi, a, e, dirs, file, which) ==
    IF ~e.presets THEN Stop("presets_unreadable", abi, EmptyDict, EmptyDict, dirs, file, FALSE, <<>>)
    ELSE
    LET preset == <<"android", abi>>
        d1 == clean_build_dir(dirs, preset, a.clean)
        cv == android_backend_cache_vars(abi, a.backend)
        x0 == Extend(cmake_cache_args(cv.vars),
                     [CMAKE_C_FLAGS |-> "-Wno-#pragma-messages",
                      CMAKE_CXX_FLAGS |-> "-Wno-#pragma-messages"])
        vulkan == cv.vars["GGML_VULKAN"] = "ON"
        opencl == cv.vars["GGML_OPENCL"] = "ON"
        \* write_android_host_toolchain and the loader build make build_dir exist
        d2 == IF vulkan /\ which.vulkan_headers
              THEN [d1 EXCEPT ![preset] = Dir(d1[preset].entries)] ELSE d1
        x1 == IF vulkan THEN Put(x0, "GGML_VULKAN_SHADERS_GEN_TOOLCHAIN", "android-host-toolchain.cmake")
              ELSE x0
        x2 == IF vulkan /\ which.glslc THEN Put(x1, "Vulkan_GLSLC_EXECUTABLE", "glslc") ELSE x1
        x3 == IF vulkan
              THEN Extend(x2, [Vulkan_LIBRARY |-> "libvulkan.so", Vulkan_INCLUDE_DIR |-> "Vulkan-Headers/include"])
              ELSE x2
        events == LoaderEvents(preset, a.jobs, which.opencl)
        d3 == IF events # <<>> THEN [d2 EXCEPT ![preset] = Dir(d2[preset].entries)] ELSE d2
        x4 == Extend(x3, [OpenCL_INCLUDE_DIR |-> "opencl-headers", OpenCL_LIBRARY |-> "libOpenCL.so"])
    IN  IF vulkan /\ ~which.vulkan_headers
        THEN Stop("missing_vulkan_headers", abi, cv.vars, x0, d1, file, FALSE, <<>>)
        ELSE IF vulkan /\ ~which.vulkan_lib
        THEN Stop("no_libvulkan", abi, cv.vars, x2, d2, file, FALSE, <<>>)
        ELSE IF ~opencl THEN Stop("", abi, cv.vars, x3, d2, file, FALSE, <<>>)
        ELSE CASE which.opencl = "env_not_a_file" ->
                    Stop("opencl_library_not_a_file", abi, cv.vars, x3, d2, file, FALSE, <<>>)
               [] which.opencl \in {"loader_configure_failed", "loader_build_failed"} ->
                    Stop("command_failed", abi, cv.vars, x3, d3, file, FALSE, events)
               [] which.opencl = "loader_no_library" ->
                    Stop("opencl_library_unresolved", abi, cv.vars, x3, d3, file, FALSE, events)
               [] which.opencl = "unresolved" ->
                    Stop("opencl_library_unresolved", abi, cv.vars, x3, d2, file, FALSE, <<>>)
               [] which.opencl = "no_headers" ->
                    Stop("opencl_headers_unresolved", abi, cv.vars, x3, d2, file, FALSE, <<>>)
               [] OTHER -> Stop("", abi, cv.vars, x4, d3, file, FALSE, events)

(***************************************************************************)
(* One invocation of build.py.                                             *)
(***************************************************************************)
\* --jobs: absent, or an int (argparse takes any, negative and zero too)
Jobs == {[given |-> FALSE, n |-> 0]} \cup {[given |-> TRUE, n |-> k] : k \in (-1)..MaxJobs}

\* parse_args: the namespaces the three sub-commands accept
LinuxArgs ==
    [command : {"linux"}, arch : {None, "x64", "arm64"}, abi : {None},
     backend : LINUX_BACKENDS, clean : BOOLEAN, jobs : Jobs]

WindowsArgs ==
    [command : {"windows"}, arch : {"x64", "arm64"}, abi : {None},
     backend : WINDOWS_BACKENDS, clean : BOOLEAN, jobs : Jobs]

AndroidArgs ==
    [command : {"android"}, arch : {None}, abi : {"arm64-v8a", "arm64", "x86_64", "x64", "all"},
     backend : ANDROID_BACKENDS, clean : BOOLEAN, jobs : Jobs]

\* the hosts: only what the sub-command reads varies
Hosts(command) ==
    [system : IF command = "android" THEN {"linux"} ELSE {"linux", "windows"},
     machine : IF command = "linux" THEN {"x86_64", "aarch64", "riscv64"} ELSE {"x86_64"},
     submodule : BOOLEAN, presets : BOOLEAN]

\* the presets and output directories an invocation can touch
Touched(a, e) ==
    CASE a.command = "linux" ->
            IF a.arch # None THEN {a.arch}
            ELSE {detect_linux_arch(e.machine)} \cap {"x64", "arm64"}
      [] a.command = "windows" -> {a.arch}
      [] OTHER -> IF a.abi = "all" THEN {"arm64-v8a", "x86_64"} ELSE {ANDROID_ABI_ALIASES[a.abi]}

OutArch(command, ar) == IF command = "android" THEN ANDROID_OUT_ARCH[ar] ELSE ar

\* the preset and the output directory of the build in progress
CurPreset == <<args.command, arch>>

CurOutDir == <<args.command, OutArch(args.command, arch)>>

Init ==
    /\ args \in LinuxArgs \cup WindowsArgs \cup AndroidArgs
    /\ env \in Hosts(args.command)
    /\ pc = "start"
    /\ err = ""
    /\ arch = ""
    /\ cache_vars = EmptyDict
    /\ extra_args = EmptyDict
    /\ log = <<>>
    /\ build_dirs \in [Presets -> {NoDir, Dir({})}]
    /\ \A q \in Presets : build_dirs[q].exists => q[1] = args.command /\ q[2] \in Touched(args, env)
    /\ out_dirs \in [OutDirs -> {NoDir, Dir({StaleName})}]
    /\ \A q \in OutDirs : out_dirs[q].exists =>
            q[1] = args.command /\ q[2] \in {OutArch(args.command, t) : t \in Touched(args, env)}
    /\ cmake_file \in IF args.command = "linux" THEN {NoFile, File(old \o <<"LF">>)}
                      ELSE {File(old \o <<"LF">>)}
    /\ zendnn_patch_applied = FALSE
    /\ abis = <<>>
    /\ rets = <<>>
    /\ libs = <<>>
    /\ init_fs = [build_dirs |-> build_dirs, out_dirs |-> out_dirs, cmake_file |-> cmake_file]

\* the locals and the filesystem after an entry point stopped at r
Enter(r) ==
    /\ err' = r.err
    /\ arch' = r.arch
    /\ cache_vars' = r.cache_vars
    /\ extra_args' = r.extra_args
    /\ build_dirs' = r.build_dirs
    /\ cmake_file' = r.cmake_file
    /\ zendnn_patch_applied' = r.applied
    /\ log' = log \o r.log
    /\ pc' = IF r.err = "" THEN "configure" ELSE "failed"

BuildLinux ==
    /\ pc = "start" /\ args.command = "linux"
    /\ \E w \in LinuxWhich : Enter(build_linux(args, env, build_dirs, cmake_file, w))
    /\ UNCHANGED <<args, env, out_dirs, abis, rets, libs, init_fs>>

BuildWindows ==
    /\ pc = "start" /\ args.command = "windows"
    /\ \E w \in WindowsWhich : Enter(build_windows(args, env, build_dirs, cmake_file, w))
    /\ UNCHANGED <<args, env, out_dirs, abis, rets, libs, init_fs>>

\* build_android, lines 597-613: ndk is whether detect_android_ndk() found one
BuildAndroid ==
    /\ pc = "start" /\ args.command = "android"
    /\ \E ndk \in BOOLEAN :
          IF ~env.submodule
          THEN pc' = "failed" /\ err' = "missing_submodule" /\ abis' = abis
          ELSE IF ~ndk
          THEN pc' = "failed" /\ err' = "no_ndk" /\ abis' = abis
          ELSE /\ pc' = "abi"
               /\ err' = ""
               /\ abis' = IF args.abi = "all" THEN <<"arm64-v8a", "x86_64">>
                          ELSE <<ANDROID_ABI_ALIASES[args.abi]>>
    /\ UNCHANGED <<args, env, arch, cache_vars, extra_args, log, build_dirs, out_dirs,
                   cmake_file, zendnn_patch_applied, rets, libs, init_fs>>

\* build_android, lines 615-617: the next ABI of the loop
BuildAndroidAbi ==
    /\ pc = "abi"
    /\ \E w \in AndroidWhich :
          Enter(build_android_abi(Head(abis), args, env, build_dirs, cmake_file, w))
    /\ UNCHANGED <<args, env, out_dirs, abis, rets, libs, init_fs>>

\* the finally block of build_linux, lines 522-524
Finally ==
    IF zendnn_patch_applied
    THEN restore_llama_zendnn_install_target(cmake_file, env.system)
    ELSE cmake_file

\* an exception leaves the build function: CalledProcessError becomes fail() in main
Raise(m) ==
    /\ pc' = "failed"
    /\ err' = m
    /\ cmake_file' = Finally

\* configure_and_build with run() not checking the exit status of configure
MutConfigureIgnoresExit ==
    /\ pc = "configure"
    /\ \E rc \in {0, 1} :
          /\ log' = Append(log, RunEvent(configure_cmd(CurPreset, extra_args), rc))
          /\ build_dirs' = [build_dirs EXCEPT ![CurPreset] = Dir(@.entries)]
          /\ pc' = "build" /\ err' = "" /\ cmake_file' = cmake_file
    /\ UNCHANGED <<args, env, arch, cache_vars, extra_args, out_dirs,
                   zendnn_patch_applied, abis, rets, libs, init_fs>>

\* configure_and_build, line 150: run(configure_cmd); cmake makes the build directory
Configure ==
    /\ pc = "configure"
    /\ \E rc \in {0, 1}, made \in BOOLEAN :
          /\ log' = Append(log, RunEvent(configure_cmd(CurPreset, extra_args), rc))
          /\ build_dirs' = IF rc = 0 \/ made
                           THEN [build_dirs EXCEPT ![CurPreset] = Dir(@.entries)]
                           ELSE build_dirs
          /\ IF rc = 0
             THEN pc' = "build" /\ err' = "" /\ cmake_file' = cmake_file
             ELSE Raise("command_failed")
    /\ UNCHANGED <<args, env, arch, cache_vars, extra_args, out_dirs,
                   zendnn_patch_applied, abis, rets, libs, init_fs>>

\* what a successful build leaves under the build directory
BuiltTrees ==
    {Dir(t) : t \in SUBSET [dir : {1}, name : {LibGgmlSo, LibGgmlSo0}, kind : {"file"}]}

\* configure_and_build, lines 152-156: run(build_cmd)
Build ==
    /\ pc = "build"
    /\ \E rc \in {0, 1} :
          /\ log' = Append(log, RunEvent(build_cmd(CurPreset, args.jobs), rc))
          /\ IF rc = 0
             THEN /\ pc' = "copy" /\ err' = "" /\ cmake_file' = cmake_file
                  /\ \E t \in BuiltTrees :
                        build_dirs' = [build_dirs EXCEPT
                                          ![resolve_build_dir_for_preset(CurPreset)] = t]
             ELSE Raise("command_failed") /\ build_dirs' = build_dirs
    /\ UNCHANGED <<args, env, arch, cache_vars, extra_args, out_dirs,
                   zendnn_patch_applied, abis, rets, libs, init_fs>>

\* the loop of build_android going on to the next ABI after a failed copy
MutCopyGoesOnAfterFailure ==
    /\ pc = "copy"
    /\ \E o \in copy_runtime_libraries(build_dirs[resolve_build_dir_for_preset(CurPreset)],
                                       out_dirs[CurOutDir]) :
          /\ libs' = o.libs
          /\ out_dirs' = [out_dirs EXCEPT ![CurOutDir] = o.out]
          /\ log' = Append(log, CopyEvent(CurPreset, CurOutDir, IF o.err = "" THEN 0 ELSE 1))
          /\ err' = ""
          /\ cmake_file' = Finally
          /\ abis' = IF abis = <<>> THEN abis ELSE Tail(abis)
          /\ pc' = IF Len(abis) > 1 THEN "abi" ELSE IF o.err = "" THEN "done" ELSE "failed"
    /\ UNCHANGED <<args, env, arch, cache_vars, extra_args, build_dirs,
                   zendnn_patch_applied, rets, init_fs>>

\* copy_runtime_libraries(build_dir, out_dir) as the build functions call it, and the
\* return of the build function (build_android: on to the next ABI)
Copy ==
    /\ pc = "copy"
    /\ \E o \in copy_runtime_libraries(build_dirs[resolve_build_dir_for_preset(CurPreset)],
                                       out_dirs[CurOutDir]) :
          /\ libs' = o.libs
          /\ out_dirs' = [out_dirs EXCEPT ![CurOutDir] = o.out]
          /\ log' = Append(log, CopyEvent(CurPreset, CurOutDir, IF o.err = "" THEN 0 ELSE 1))
          /\ IF o.err # ""
             THEN Raise(o.err) /\ abis' = abis
             ELSE /\ err' = ""
                  /\ cmake_file' = Finally
                  /\ abis' = IF abis = <<>> THEN abis ELSE Tail(abis)
                  /\ pc' = IF Len(abis) > 1 THEN "abi" ELSE "done"
    /\ UNCHANGED <<args, env, arch, cache_vars, extra_args, build_dirs,
                   zendnn_patch_applied, rets, init_fs>>

Next ==
    \/ BuildLinux
    \/ BuildWindows
    \/ BuildAndroid
    \/ BuildAndroidAbi
    \/ Configure
    \/ Build
    \/ Copy

Spec == Init /\ [][Next]_vars

(***************************************************************************)
(* SpecPatch: calls of the two PatchManager functions on an arbitrary      *)
(* CMakeLists.txt of a Linux host: up to MaxCalls patch calls in a row,    *)
(* then restore.                                                           *)
(***************************************************************************)
Idle ==
    /\ args = [command |-> "linux", arch |-> "x64", abi |-> None, backend |-> "full",
               clean |-> FALSE, jobs |-> [given |-> FALSE, n |-> 0]]
    /\ env = [system |-> "linux", machine |-> "x86_64", submodule |-> TRUE, presets |-> TRUE]
    /\ err = ""
    /\ arch = "x64"
    /\ cache_vars = EmptyDict
    /\ extra_args = EmptyDict
    /\ log = <<>>
    /\ zendnn_patch_applied = FALSE
    /\ abis = <<>>
    /\ rets = <<>>
    /\ libs = <<>>

InitPatch ==
    /\ Idle
    /\ pc = "patch"
    /\ build_dirs = [q \in Presets |-> NoDir]
    /\ out_dirs = [q \in OutDirs |-> NoDir]
    /\ cmake_file \in {NoFile} \cup {File(b) : b \in SeqsUpTo(Tokens, MaxLen)}
    /\ init_fs = [build_dirs |-> build_dirs, out_dirs |-> out_dirs, cmake_file |-> cmake_file]

PatchCall ==
    /\ pc = "patch"
    /\ Len(rets) < MaxCalls
    /\ LET r == patch_llama_zendnn_install_target(cmake_file, env.system) IN
          /\ cmake_file' = r.file
          /\ err' = r.err
          /\ IF r.err # "" THEN pc' = "failed" /\ rets' = rets
             ELSE pc' = "patch" /\ rets' = Append(rets, r.ret)
    /\ UNCHANGED <<args, env, arch, cache_vars, extra_args, log, build_dirs, out_dirs,
                   zendnn_patch_applied, abis, libs, init_fs>>

RestoreCall ==
    /\ pc = "patch"
    /\ cmake_file' = restore_llama_zendnn_install_target(cmake_file, env.system)
    /\ pc' = "restored"
    /\ UNCHANGED <<args, env, err, arch, cache_vars, extra_args, log, build_dirs, out_dirs,
                   zendnn_patch_applied, abis, rets, libs, init_fs>>

NextPatch == PatchCall \/ RestoreCall

SpecPatch == InitPatch /\ [][NextPatch]_vars

(***************************************************************************)
(* SpecCopy: one call of copy_runtime_libraries(build_dir, out_dir), as    *)
(* the build function of each platform makes it, on an arbitrary build     *)
(* tree and an arbitrary earlier output directory.                         *)
(***************************************************************************)
InitCopy ==
    /\ \E c \in {"linux", "windows", "android"} :
          /\ args = [command |-> c, arch |-> IF c = "android" THEN None ELSE "x64",
                     abi |-> IF c = "android" THEN "x86_64" ELSE None, backend |-> "full",
                     clean |-> FALSE, jobs |-> [given |-> FALSE, n |-> 0]]
          /\ env = [system |-> IF c = "windows" THEN "windows" ELSE "linux",
                    machine |-> "x86_64", submodule |-> TRUE, presets |-> TRUE]
          /\ arch = IF c = "android" THEN "x86_64" ELSE "x64"
          /\ abis = IF c = "android" THEN <<"x86_64">> ELSE <<>>
    /\ pc = "copy"
    /\ err = ""
    /\ cache_vars = EmptyDict
    /\ extra_args = EmptyDict
    /\ log = <<>>
    /\ zendnn_patch_applied = FALSE
    /\ rets = <<>>
    /\ libs = <<>>
    /\ cmake_file = File(old \o <<"LF">>)
    /\ \E t \in Trees(MaxFiles) \cup {NoDir} :
          build_dirs = [q \in Presets |-> IF q = CurPreset THEN t ELSE NoDir]
    /\ \E d \in {NoDir, Dir({}), Dir({StaleName}), Dir({StaleName, LibGgmlSo})} :
          out_dirs = [q \in OutDirs |-> IF q = CurOutDir THEN d ELSE NoDir]
    /\ init_fs = [build_dirs |-> build_dirs, out_dirs |-> out_dirs, cmake_file |-> cmake_file]

NextCopy == Copy

SpecCopy == InitCopy /\ [][NextCopy]_vars

(***************************************************************************)
(* DependencyLocator: detect_android_ndk.  A host is                       *)
(*   ndk_home  ANDROID_NDK_HOME: [value, exists], value None when unset,   *)
(*             "" when empty, exists = Path(value).exists()                *)
(*   roots     the five SDK roots in the order the code tries them, each   *)
(*             [key, value, ndk]: ndk is the directory <root>/ndk          *)
(*   legacy    /usr/local/lib/android/sdk/ndk-bundle is a directory        *)
(* A returned Path is [found, root, name]: <root>/ndk/<name>, the root     *)
(* "ANDROID_NDK_HOME" for the explicit path and name NdkBundle for the     *)
(* legacy one.                                                             *)
(***************************************************************************)
V9_0 == <<"9", ".", "0">>

V25_2 == <<"2", "5", ".", "2">>

V25_10 == <<"2", "5", ".", "1", "0">>

V26_0 == <<"2", "6", ".", "0">>

NdkBundle == <<"n", "d", "k", "-", "b", "u", "n", "d", "l", "e">>

\* what an ndk directory of the model can hold: version directories, and a plain file
NdkEntries ==
    [name : {V9_0, V25_2, V25_10}, kind : {"dir"}] \cup {[name |-> V26_0, kind |-> "file"]}

EnvRootKeys == <<"ANDROID_SDK_ROOT", "ANDROID_HOME">>

WellKnownRoots == <<"~/Library/Android/sdk", "~/Android/Sdk", "/usr/local/lib/android/sdk">>

RootKeys == EnvRootKeys \o WellKnownRoots

NoPath == [found |-> FALSE, root |-> "", name |-> <<>>]

PathOf(root, name) == [found |-> TRUE, root |-> root, name |-> name]

\* list(reversed(s))
Reverse(s) == [i \in 1..Len(s) |-> s[Len(s) + 1 - i]]

\* sorted([p for p in ndk_root.iterdir() if p.is_dir()], reverse=True), line 257:
\* the paths share their parent, so they compare by name, as str
Versions(names) == Reverse(SortedNames(names))

RECURSIVE FirstNdk(_)
\* the loop over sdk_roots, lines 254-259
FirstNdk(roots) ==
    IF roots = <<>> THEN NoPath
    ELSE LET root == Head(roots)
             names == {p.name : p \in {q \in root.ndk.entries : q.kind = "dir"}}
             versions == Versions(names)
         IN  IF root.ndk.exists /\ versions # <<>>
             THEN PathOf(root.key, versions[1])
             ELSE FirstNdk(Tail(roots))

\* detect_android_ndk(), lines 234-264
detect_android_ndk(h) ==
    LET sdk_roots == SelectSeq(h.roots, LAMBDA r : r.value # None /\ r.value # "")
        first == FirstNdk(sdk_roots)
    IN  IF h.ndk_home.value # None /\ h.ndk_home.value # "" /\ h.ndk_home.exists
        THEN PathOf("ANDROID_NDK_HOME", <<>>)
        ELSE IF first.found THEN first
        ELSE IF h.legacy THEN PathOf("/usr/local/lib/android/sdk", NdkBundle)
        ELSE NoPath

\* the directories <root>/ndk can be, with at most n entries
NdkDirs(n) == {NoDir} \cup {Dir(t) : t \in SubsetsUpTo(NdkEntries, n)}

\* the settings of root number k: an unset or empty variable names no directory
RootsAt(k, n) ==
    IF k <= Len(EnvRootKeys)
    THEN {[key |-> RootKeys[k], value |-> v, ndk |-> NoDir] : v \in {None, ""}}
            \cup {[key |-> RootKeys[k], value |-> "path", ndk |-> d] : d \in NdkDirs(n)}
    ELSE {[key |-> RootKeys[k], value |-> "path", ndk |-> d] : d \in NdkDirs(n)}

RECURSIVE RootsUpTo(_, _)
\* the first k roots of a host, with at most n entries under their ndk directories
RootsUpTo(k, n) ==
    IF k = 0 THEN {<<>>}
    ELSE UNION {{Append(r, d) : r \in RootsUpTo(k - 1, n - Cardinality(d.ndk.entries))} :
                    d \in RootsAt(k, n)}

NdkHosts ==
    [ndk_home : {[value |-> None, exists |-> FALSE], [value |-> "", exists |-> FALSE],
                 [value |-> "path", exists |-> FALSE], [value |-> "path", exists |-> TRUE]},
     roots : RootsUpTo(Len(RootKeys), MaxInstalled),
     legacy : BOOLEAN]

(***************************************************************************)
(* SpecNdk: one call of detect_android_ndk() on an arbitrary host; env is  *)
(* the host and rets the value returned.                                   *)
(***************************************************************************)
InitNdk ==
    /\ args = [command |-> "android", arch |-> None, abi |-> "all", backend |-> "full",
               clean |-> FALSE, jobs |-> [given |-> FALSE, n |-> 0]]
    /\ env \in NdkHosts
    /\ pc = "detect"
    /\ err = ""
    /\ arch = ""
    /\ cache_vars = EmptyDict
    /\ extra_args = EmptyDict
    /\ log = <<>>
    /\ zendnn_patch_applied = FALSE
    /\ abis = <<>>
    /\ rets = <<>>
    /\ libs = <<>>
    /\ build_dirs = [q \in Presets |-> NoDir]
    /\ out_dirs = [q \in OutDirs |-> NoDir]
    /\ cmake_file = File(old \o <<"LF">>)
    /\ init_fs = [build_dirs |-> build_dirs, out_dirs |-> out_dirs, cmake_file |-> cmake_file]

DetectNdk ==
    /\ pc = "detect"
    /\ rets' = <<detect_android_ndk(env)>>
    /\ pc' = "detected"
    /\ UNCHANGED <<args, env, err, arch, cache_vars, extra_args, log, build_dirs, out_dirs,
                   cmake_file, zendnn_patch_applied, abis, libs, init_fs>>

NextNdk == DetectNdk

SpecNdk == InitNdk /\ [][NextNdk]_vars

(***************************************************************************)
(* What the `list` command prints.                                         *)
(***************************************************************************)
\* print_presets: the parts the listing gives for backend full
print_presets(platform, ar) ==
    CASE platform \in {"linux", "windows"} /\ ar = "x64" -> {"vulkan", "cuda", "blas", "cpu"}
      [] platform \in {"linux", "windows"} /\ ar = "arm64" -> {"vulkan", "blas", "kleidi", "cpu"}
      [] platform = "android" /\ ar = "arm64-v8a" -> {"vulkan", "opencl", "kleidi", "cpu"}
      [] platform = "android" /\ ar = "x86_64" -> {"vulkan", "opencl", "cpu"}

(***************************************************************************)
(* Properties.                                                             *)
(***************************************************************************)
Terminal == pc \in {"done", "failed"}

Range(f) == {f[i] : i \in DOMAIN f}

\* the cache variable of a part of a backend
KeyOf(part) ==
    CASE part = "vulkan" -> "GGML_VULKAN"
      [] part = "opencl" -> "GGML_OPENCL"
      [] part = "cuda" -> "GGML_CUDA"
      [] part = "blas" -> "GGML_BLAS"
      [] part = "kleidi" -> "GGML_CPU_KLEIDIAI"

\* the capabilities a backend implies on an architecture: the listed parts of full, the
\* one capability a single backend names, and KleidiAI on arm64
Implied(platform, ar, backend) ==
    IF backend = "full"
    THEN {KeyOf(q) : q \in print_presets(platform, ar) \ {"cpu"}}
    ELSE {KeyOf(backend)} \cup (IF ar \in {"arm64", "arm64-v8a"} THEN {KeyOf("kleidi")} ELSE {})

\* the cache variables of a triple, by the platform's function
CacheVarsOf(platform, ar, backend) ==
    CASE platform = "linux" -> linux_backend_cache_vars(ar, backend)
      [] platform = "windows" -> windows_backend_cache_vars(ar, backend)
      [] platform = "android" -> android_backend_cache_vars(ar, backend)

\* the supported (architecture, backend) pairs of a platform
Supported(platform) ==
    CASE platform = "linux" -> ({"x64", "arm64"} \X LINUX_BACKENDS) \ {<<"arm64", "cuda">>}
      [] platform = "windows" -> ({"x64", "arm64"} \X WINDOWS_BACKENDS) \ {<<"arm64", "cuda">>}
      [] platform = "android" -> {"arm64-v8a", "x86_64"} \X ANDROID_BACKENDS

\* the build function has resolved its cache variables
Resolved == cache_vars # EmptyDict

\* C1 (as claimed): once a supported triple is resolved, the keys of the cache
\* variables are those of every other triple of the platform, every capability the
\* backend implies is ON and every other key is OFF.
C1_CompleteCacheVars ==
    Resolved =>
        /\ \A t \in Supported(args.command) :
              DOMAIN cache_vars = DOMAIN CacheVarsOf(args.command, t[1], t[2]).vars
        /\ \A k \in DOMAIN cache_vars :
              cache_vars[k] = IF k \in Implied(args.command, arch, args.backend)
                              THEN "ON" ELSE "OFF"

\* the architecture a linux or windows request asks for ("" when the host decides
\* and is not a supported one)
RequestedArch ==
    IF args.arch # None THEN args.arch
    ELSE IF detect_linux_arch(env.machine) = "unsupported" THEN ""
    ELSE detect_linux_arch(env.machine)

\* the checks that precede the backend validation have passed
HostAccepted ==
    /\ env.system = args.command
    /\ env.submodule
    /\ args.command = "linux" => env.presets

\* C2: a linux or windows request for cuda on an architecture other than x64 never
\* gets past the entry point: it ends in fail() (with the cuda message once the host
\* checks have passed), never succeeds and never runs an external command.
C2_CudaOnlyX64 ==
    (args.command \in {"linux", "windows"} /\ args.backend = "cuda"
        /\ RequestedArch \notin {"", "x64"}) =>
        /\ pc \in {"start", "failed"}
        /\ log = <<>>
        /\ pc = "failed" =>
              /\ err \in {"host_platform", "missing_submodule", "presets_unreadable",
                          "cuda_only_x64"}
              /\ HostAccepted => err = "cuda_only_x64"

C2_Witness ==
    /\ pc = "failed" /\ err = "cuda_only_x64" /\ log = <<>>
    /\ args.command = "windows" /\ args.backend = "cuda" /\ arch = "arm64"

HostArch == detect_linux_arch(env.machine)

\* C9 (as claimed): every configure command of a linux request whose target differs
\* from the host carries the cross-toolchain arguments, and no configure command of a
\* native request does.
C9_CrossToolchain ==
    args.command = "linux" =>
        \A i \in DOMAIN log :
            log[i].step = "configure" =>
                IF arch # HostArch
                THEN DOMAIN CrossArgs \subseteq DOMAIN log[i].extra
                ELSE DOMAIN CrossArgs \cap DOMAIN log[i].extra = {}

\* C10 (as claimed): on linux and windows, full on arm64 resolves to vulkan, blas and
\* KleidiAI ON and cuda OFF and never asks for nvcc; full on x64 resolves to vulkan,
\* cuda and blas ON.
C10_FullAsListed ==
    (args.command \in {"linux", "windows"} /\ args.backend = "full" /\ Resolved) =>
        /\ \A k \in {"GGML_VULKAN", "GGML_CUDA", "GGML_BLAS", "GGML_CPU_KLEIDIAI"} :
              cache_vars[k] = IF k \in Implied(args.command, arch, "full") THEN "ON" ELSE "OFF"
        /\ arch = "arm64" => err # "nvcc_missing"

\* the file the calls started from, as read_text reads it
InitText == ReadText(init_fs.cmake_file.bytes)

\* the file holds the legacy install command and not the patched one
LegacyFile ==
    /\ init_fs.cmake_file.exists
    /\ Contains(InitText, old)
    /\ ~Contains(InitText, new)

\* C4 (as claimed): on a file with the legacy install command and not the patched
\* one, of the patch calls made in a row only the first returns true and writes, and
\* restore then leaves the bytes the file had before the first call; restore with no
\* patch before it leaves the file alone.
C4_PatchRoundTrip ==
    LegacyFile =>
        /\ pc # "failed"
        /\ \A i \in DOMAIN rets : rets[i] = (i = 1)
        /\ (pc = "patch" /\ Len(rets) >= 1) =>
              cmake_file = patch_llama_zendnn_install_target(init_fs.cmake_file, env.system).file
        /\ pc = "restored" => cmake_file = init_fs.cmake_file

\* the shared-library extension of the platform being built
PlatformExt == IF args.command = "windows" THEN DotDll ELSE DotSo

\* the names of the files of the build tree that C5 says are returned
ClaimedNames ==
    LET tree == build_dirs[resolve_build_dir_for_preset(CurPreset)] IN
    {p.name : p \in {q \in tree.entries :
                        /\ q.kind = "file"
                        /\ EndsWith(Lower(q.name), PlatformExt)
                        /\ \E x \in prefixes : StartsWith(Lower(q.name), x)}}

\* C5 (as claimed): the names collect_runtime_libraries returns are exactly those of
\* the files with the platform's shared-library extension and an allowlisted prefix.
C5_ExactlyPlatformLibraries ==
    (pc # "copy" /\ libs # <<>>) => {p.name : p \in Range(libs)} = ClaimedNames

\* C6: after a successful copy_runtime_libraries the output directory holds exactly
\* the base names collect_runtime_libraries returns for the build directory, whatever
\* it held before.
C6_ResetThenCopy ==
    pc = "done" =>
        LET c == collect_runtime_libraries(build_dirs[resolve_build_dir_for_preset(CurPreset)])
        IN  /\ out_dirs[CurOutDir].exists
            /\ out_dirs[CurOutDir].entries = {p.name : p \in Range(c.libs)}
            /\ StaleName \notin out_dirs[CurOutDir].entries

C6_Witness ==
    /\ pc = "done"
    /\ init_fs.out_dirs[CurOutDir] = Dir({StaleName, LibGgmlSo})
    /\ out_dirs[CurOutDir] = Dir({MtmdSoUpper})

\* the --parallel value configure_and_build is to pass for the --jobs given
JobsHint == IF args.jobs.given /\ args.jobs.n > 0 THEN args.jobs.n ELSE 0

\* C7: configure_and_build runs build right after a configure of the same preset that
\* exited 0, runs each of the two at most once per preset, stops the run at the first
\* non-zero exit (nothing is run or copied after it, the output directory is as it
\* was), copies only after a build that exited 0, and gives --parallel to the build
\* command alone.
C7_ConfigureThenBuild ==
    /\ \A i \in DOMAIN log :
          /\ log[i].step = "build" =>
                /\ i > 1
                /\ log[i - 1].step = "configure"
                /\ log[i - 1].preset = log[i].preset
                /\ log[i - 1].rc = 0
                /\ log[i].parallel = JobsHint
          /\ log[i].step = "configure" => log[i].parallel = 0
          /\ log[i].step = "copy" =>
                /\ i > 1
                /\ log[i - 1].step = "build"
                /\ log[i - 1].preset = log[i].preset
                /\ log[i - 1].rc = 0
          /\ log[i].step \in {"configure", "build"} =>
                \A j \in DOMAIN log :
                    (log[j].step = log[i].step /\ log[j].preset = log[i].preset) => j = i
          /\ (log[i].kind = "run" /\ log[i].rc # 0) =>
                /\ i = Len(log)
                /\ pc = "failed"
                /\ err = "command_failed"
                /\ out_dirs[CurOutDir] = init_fs.out_dirs[CurOutDir]
    /\ pc = "build" => (log # <<>> /\ log[Len(log)].step = "configure" /\ log[Len(log)].rc = 0)
    /\ pc = "copy" => (log # <<>> /\ log[Len(log)].step = "build" /\ log[Len(log)].rc = 0)

C7_Witness ==
    /\ pc = "failed"
    /\ Len(log) = 2
    /\ log[1].step = "configure" /\ log[1].rc = 0 /\ log[1].parallel = 0
    /\ log[2].step = "build" /\ log[2].rc = 1 /\ log[2].parallel > 0

FirstAbi == <<"android", "arm64-v8a">>

SecondAbi == <<"android", "x86_64">>

FirstOut == <<"android", "arm64">>

SecondOut == <<"android", "x64">>

\* the names collect_runtime_libraries returns for the build directory of a preset
Collected(preset) ==
    {p.name : p \in Range(collect_runtime_libraries(
                              build_dirs[resolve_build_dir_for_preset(preset)]).libs)}

\* C8: android with abi = all builds arm64-v8a and then x86_64 and nothing else; every
\* step of x86_64 comes after the successful copy of arm64-v8a; unless that copy
\* happened the build and output directories of x86_64 are untouched; a finished run
\* made exactly the two copies, each into its own directory, which then holds exactly
\* what was collected for it.
C8_AbisInSequence ==
    (args.command = "android" /\ args.abi = "all") =>
        /\ \A i \in DOMAIN log :
              /\ log[i].preset \in {FirstAbi, SecondAbi}
              /\ log[i].preset = SecondAbi =>
                    \E j \in 1..(i - 1) : log[j] = CopyEvent(FirstAbi, FirstOut, 0)
              /\ log[i].preset = FirstAbi => \A j \in 1..i : log[j].preset = FirstAbi
        /\ pc \in {"abi", "configure", "build", "copy"} =>
              abis \in {<<"arm64-v8a", "x86_64">>, <<"x86_64">>}
        /\ pc \in {"configure", "build", "copy"} => arch = Head(abis)
        /\ (\A i \in DOMAIN log : log[i] # CopyEvent(FirstAbi, FirstOut, 0)) =>
              /\ arch \in {"", "arm64-v8a"}
              /\ build_dirs[SecondAbi] = init_fs.build_dirs[SecondAbi]
              /\ out_dirs[SecondOut] = init_fs.out_dirs[SecondOut]
        /\ pc = "done" =>
              /\ abis = <<>>
              /\ SelectSeq(log, LAMBDA e : e.step = "copy")
                    = <<CopyEvent(FirstAbi, FirstOut, 0), CopyEvent(SecondAbi, SecondOut, 0)>>
              /\ out_dirs[FirstOut] = Dir(Collected(FirstAbi))
              /\ out_dirs[SecondOut] = Dir(Collected(SecondAbi))

C8_Witness ==
    /\ args.command = "android" /\ args.abi = "all" /\ args.clean
    /\ pc = "done"
    /\ init_fs.out_dirs[FirstOut] = Dir({StaleName})
    /\ init_fs.out_dirs[SecondOut] = Dir({StaleName})
    /\ out_dirs[FirstOut] = Dir({LibGgmlSo})
    /\ out_dirs[SecondOut] = Dir({LibGgmlSo})

(***************************************************************************)
(* detect_android_ndk against the documented chain.                        *)
(***************************************************************************)
RECURSIVE VersionParts(_, _)
\* the components of a version name as numbers: "25.10" is <<25, 10>>
VersionParts(s, cur) ==
    IF s = <<>> THEN <<cur>>
    ELSE IF Head(s) = "." THEN <<cur>> \o VersionParts(Tail(s), 0)
    ELSE VersionParts(Tail(s), 10 * cur + (Code(Head(s)) - 48))

RECURSIVE NumbersLess(_, _)
\* a < b, component by component
NumbersLess(a, b) ==
    IF b = <<>> THEN FALSE
    ELSE IF a = <<>> THEN TRUE
    ELSE IF Head(a) # Head(b) THEN Head(a) < Head(b)
    ELSE NumbersLess(Tail(a), Tail(b))

\* the version directories under <root>/ndk
InstalledVersions(root) ==
    IF root.ndk.exists THEN {q.name : q \in {e \in root.ndk.entries : e.kind = "dir"}} ELSE {}

\* the highest-numbered of a non-empty set of version names
HighestNumbered(names) ==
    CHOOSE v \in names :
        \A w \in names \ {v} : NumbersLess(VersionParts(w, 0), VersionParts(v, 0))

\* the SDK roots of a host in order: the environment-supplied, then the well-known
SdkRoots(h) == SelectSeq(h.roots, LAMBDA r : r.value # None /\ r.value # "")

\* the documented chain on host h
DocumentedNdk(h) ==
    LET roots == SdkRoots(h)
        holding == {i \in 1..Len(roots) : InstalledVersions(roots[i]) # {}}
        first == CHOOSE i \in holding : \A j \in holding : i <= j
    IN  IF h.ndk_home.value \notin {None, ""} /\ h.ndk_home.exists
        THEN PathOf("ANDROID_NDK_HOME", <<>>)
        ELSE IF holding # {}
        THEN PathOf(roots[first].key, HighestNumbered(InstalledVersions(roots[first])))
        ELSE IF h.legacy THEN PathOf("/usr/local/lib/android/sdk", NdkBundle)
        ELSE NoPath

\* C11 (as claimed): detect_android_ndk returns what the ordered chain says: the
\* explicit ANDROID_NDK_HOME path when it exists, else the highest-numbered version
\* (numeric comparison of the components) of the first SDK root holding a version
\* directory, else the legacy ndk-bundle when it exists, else nothing.
C11_HighestNumbered ==
    pc = "detected" => rets[1] = DocumentedNdk(env)

\* every part of the chain but the choice among several versions is as documented:
\* with at most one version directory per SDK root the code returns the documented path
C11_ChainOrder ==
    (pc = "detected" /\ \A i \in 1..Len(env.roots) :
                            Cardinality(InstalledVersions(env.roots[i])) <= 1)
        => rets[1] = DocumentedNdk(env)

\* C12: when copy_runtime_libraries fails because no runtime library is found under
\* the build directory, the output directory is exactly what it was before the call:
\* not deleted, not emptied.
C12_NoLibrariesKeepsOutput ==
    (pc = "failed" /\ err = "no_runtime_libraries") =>
        /\ out_dirs[CurOutDir] = init_fs.out_dirs[CurOutDir]
        /\ out_dirs = init_fs.out_dirs

C12_Witness ==
    /\ pc = "failed" /\ err = "no_runtime_libraries"
    /\ StaleName \in out_dirs[CurOutDir].entries
    /\ build_dirs[resolve_build_dir_for_preset(CurPreset)].exists
    /\ build_dirs[resolve_build_dir_for_preset(CurPreset)].entries # {}

\* C13: every linux request that resolves has GGML_ZENDNN = OFF, so in every run of
\* build_linux the patch is never applied (the flag stays false, no patch error is
\* raised), ggml-zendnn/CMakeLists.txt is never written, and the finally block has
\* nothing to restore.
C13_ZendnnNeverOn ==
    /\ \A a \in {"x64", "arm64"}, b \in LINUX_BACKENDS :
            LET cv == linux_backend_cache_vars(a, b) IN
            cv.err = "" => cv.vars["GGML_ZENDNN"] = "OFF"
    /\ args.command = "linux" =>
            /\ cache_vars # EmptyDict => cache_vars["GGML_ZENDNN"] = "OFF"
            /\ ~zendnn_patch_applied
            /\ err \notin {"missing_zendnn_cmake", "zendnn_patch_not_applicable"}
            /\ cmake_file = init_fs.cmake_file
            /\ Finally = cmake_file

\* an x64 full build that ran to its end over a CMakeLists.txt holding the legacy command
C13_Witness ==
    /\ args.command = "linux" /\ args.backend = "full" /\ arch = "x64"
    /\ pc = "done"
    /\ cmake_file.exists /\ Contains(ReadText(cmake_file.bytes), old)

\* C14 (as claimed): a linux or windows request rejected with the cuda-on-non-x64
\* error leaves the filesystem as it was, also when clean was requested: the preset
\* build directory, the output directories and the sources are untouched.
C14_RejectedCudaKeepsFiles ==
    (args.command \in {"linux", "windows"} /\ pc = "failed" /\ err = "cuda_only_x64") =>
        /\ build_dirs = init_fs.build_dirs
        /\ out_dirs = init_fs.out_dirs
        /\ cmake_file = init_fs.cmake_file

\* the windows half holds: build_windows validates before it cleans
C14_WindowsValidatesFirst ==
    (args.command = "windows" /\ pc = "failed" /\ err \in {"cuda_only_x64", "nvcc_missing"}) =>
        build_dirs = init_fs.build_dirs

====
